---- MODULE Spec2Model ----
(***************************************************************************)
(* A model of the two stateful primitives of the parser backend:           *)
(*                                                                         *)
(*   RateLimiter              src/парсер/src/workers/rate_limiter.py       *)
(*   GracefulShutdownManager  src/парсер/src/core/graceful_shutdown.py     *)
(*                                                                         *)
(* The rate limiter is called from several threads; one call is split at   *)
(* the points where another thread could run if the lock were not held.    *)
(* The shutdown manager runs on one asyncio event loop; one action is the  *)
(* code between two awaits.  The two objects share no state, so each has   *)
(* its own specification (SpecRL, SpecSD) over the same variables.         *)
(*                                                                         *)
(* Time is counted in ticks, TicksPerSec ticks to the second, so that a    *)
(* fractional window_seconds and the ceiling of the retry hint are real.   *)
(***************************************************************************)
EXTENDS Integers, Sequences, FiniteSets, TLC

\* ------------------------------------------------------------------ bounds
MaxTime == 3          \* the clock stops advancing at this tick
MaxChecks == 4        \* check_limit and get_stats calls started per behaviour
MaxReqCfg == 2        \* max_requests is drawn from 1..MaxReqCfg
MaxWinCfg == 2        \* window_seconds is drawn from 1..MaxWinCfg ticks
TicksPerSec == 2      \* resolution of the clock

MaxCalls == 2         \* calls of graceful_shutdown per behaviour
MaxHandlers == 2      \* registered shutdown handlers
MaxPending == 1       \* cap of the pending-operation counter
DrainTimeout == 1     \* timeout of the drain wait, in poll intervals (10.0 s / 0.1 s in the code)

\* class attributes of RateLimiter
DEFAULT_MAX_REQUESTS == 5
DEFAULT_WINDOW_SECONDS == 1

Keys == {"u1", "u2"}
Callers == {"c1", "c2"}
TaskIds == {"t1", "t2"}
\* "hA" is a coroutine function (async def), "hS" a plain function
HandlerIds == {"hA", "hS"}
Threads == {"th1", "th2"}
NoThread == "none"

VARIABLES
    \* ---- RateLimiter (fields)
    max_requests,     \* self.max_requests
    window_seconds,   \* self.window_seconds, in ticks
    requests,         \* self.requests: key -> list of timestamps (defaultdict)
    stats,            \* self.stats
    lock,             \* self._lock: the thread holding it, or NoThread
    \* ---- RateLimiter (environment and per-thread frames)
    clock,            \* time.time(), in ticks
    tpc,              \* thread -> position in check_limit / get_stats
    tkey,             \* thread -> user_id of the call in progress
    tnow,             \* thread -> current_time of the call in progress
    ur,               \* thread -> local list user_requests
    tres,             \* the tuple returned by the last completed check_limit, or
                      \* (field error) the exception it raised
    snap,             \* thread -> snapshot being built by get_stats
    snapshot,         \* the dict returned by the last completed get_stats
    nstats,           \* history: get_stats calls started
    admits            \* history: key -> times of the calls that returned True

rlvars == <<max_requests, window_seconds, requests, stats, lock, clock, tpc,
            tkey, tnow, ur, tres, snap, snapshot, nstats, admits>>

VARIABLES
    \* ---- GracefulShutdownManager (fields)
    background_tasks,    \* self.background_tasks: list of tasks
    pending_operations,  \* self.pending_operations
    shutdown_handlers,   \* self.shutdown_handlers: list of handlers
    shutting_down,       \* self._shutting_down
    \* ---- the asyncio tasks the manager tracks
    tstate,              \* task -> "new" | "running" | "cancelling" (running, with a
                         \* cancel() request) | "done" (finished or cancelled)
    \* ---- one frame per caller of graceful_shutdown
    pc,                  \* caller -> where its call of graceful_shutdown is
    idx,                 \* caller -> position of the iteration over shutdown_handlers
    elapsed,             \* caller -> loop time since start_time, in poll intervals
    gathered,            \* caller -> the tasks handed to asyncio.gather
    \* ---- history
    ncalls,              \* calls of graceful_shutdown made so far
    overlapped,          \* caller -> another call was in progress when its call began
    noverlap,            \* how many calls began while another was in progress
    runs,                \* calls that went past the re-entrancy guard
    runner,              \* the caller whose call began the last run
    prevInv,             \* handlers invoked in the run before the last one (kept
                         \* while the last run is in its handler phase)
    \* ---- history of the run that began last
    invLog,              \* handlers invoked, in order
    ndone,               \* how many of them have finished
    hret,                \* len(shutdown_handlers) when the handler phase returned, or -1
    drainRes,            \* what the drain wait returned: "none" | "true" | "timeout"
    cancelPhase,         \* cancel_background_tasks was entered
    cancelReq,           \* the tasks lines 83-86 asked to cancel
    failures,            \* the failures met
    watchRun,            \* the run whose late registrations are recorded (0: none)
    lateTasks,           \* the tasks registered while run watchRun was in its
                         \* handler or drain phase (kept until that run ends)
    zeroSeen             \* the poll interval of the drain wait in which the counter
                         \* first came down to zero between two polls, or -1

sdvars == <<background_tasks, pending_operations, shutdown_handlers, shutting_down,
            tstate, pc, idx, elapsed, gathered, ncalls, overlapped, noverlap,
            runs, runner, prevInv,
            invLog, ndone, hret, drainRes, cancelPhase, cancelReq, failures,
            watchRun, lateTasks, zeroSeen>>

vars == <<rlvars, sdvars>>

\* --------------------------------------------------------------- helpers
RECURSIVE SeqMin(_)
SeqMin(s) ==
    IF Len(s) = 1 THEN s[1]
    ELSE LET m == SeqMin(Tail(s)) IN IF s[1] < m THEN s[1] ELSE m

\* [t for t in user_requests if t > window_start]
PruneNothing(s, window_start) == s
PruneTooMuch(s, window_start) == SelectSeq(s, LAMBDA x : x > window_start + 1)
PruneKeepsBoundary(s, window_start) == SelectSeq(s, LAMBDA x : x >= window_start)
Prune(s, window_start) == SelectSeq(s, LAMBDA x : x > window_start)

\* self.requests[user_id] on a defaultdict(list): a missing key reads as []
\* (and is created by the read)
GetLogAnyKey(k) ==
    IF DOMAIN requests # {} THEN requests[CHOOSE x \in DOMAIN requests : TRUE] ELSE <<>>
GetLog(k) == IF k \in DOMAIN requests THEN requests[k] ELSE <<>>

SetLogDropsEmpty(k, log) ==
    [x \in IF log = << >> THEN (DOMAIN requests) \ {k} ELSE (DOMAIN requests) \cup {k} |->
        IF x = k THEN log ELSE requests[x]]

\* self.requests[user_id] = user_requests: the key stays, with an empty list too
SetLog(k, log) == [x \in (DOMAIN requests) \cup {k} |-> IF x = k THEN log ELSE requests[x]]

\* int(x) for a non-negative x = n / TicksPerSec seconds
IntPart(n) == n \div TicksPerSec

\* int(retry_after) + (1 if retry_after > int(retry_after) else 0)
RetryAfterTruncated(n) == IntPart(n)
RetryAfterInt(n) == IntPart(n) + (IF n > IntPart(n) * TicksPerSec THEN 1 ELSE 0)

NoResult == [key |-> "u1", now |-> -1, allowed |-> FALSE, retry |-> -1, error |-> "none"]
NoSnap == [total_checks |-> -1, allowed |-> -1, blocked |-> -1, users |-> -1]

\* ---------------------------------------------------------- RateLimiter
\* __init__
RLStart(m, w) ==
    /\ max_requests = m
    /\ window_seconds = w
    /\ requests = << >>
    /\ stats = [total_checks |-> 0, allowed |-> 0, blocked |-> 0, users_tracked |-> 0]
    /\ lock = NoThread
    /\ clock = 0
    /\ tpc = [t \in Threads |-> "idle"]
    /\ tkey = [t \in Threads |-> "u1"]
    /\ tnow = [t \in Threads |-> 0]
    /\ ur = [t \in Threads |-> << >>]
    /\ tres = NoResult
    /\ snap = [t \in Threads |-> NoSnap]
    /\ snapshot = NoSnap
    /\ nstats = 0
    /\ admits = [k \in Keys |-> << >>]

\* time.time() is non-decreasing
Tick ==
    /\ clock < MaxTime
    /\ clock' = clock + 1
    /\ UNCHANGED <<max_requests, window_seconds, requests, stats, lock, tpc,
                   tkey, tnow, ur, tres, snap, snapshot, nstats, admits>>
    /\ UNCHANGED sdvars

\* `with self._lock:` of check_limit can be entered
CheckLockFreeNoLock == TRUE
CheckLockFree == lock = NoThread

\* `with self._lock:` of get_stats can be entered
StatsLockFreeNoLock == TRUE
StatsLockFree == lock = NoThread

\* calls followed per behaviour: a limiter with the default configuration is
\* followed until its quota is used up and one more call has been made
Budget ==
    IF max_requests = DEFAULT_MAX_REQUESTS THEN DEFAULT_MAX_REQUESTS + 1 ELSE MaxChecks

Started == stats.total_checks + Cardinality({t \in Threads : tpc[t] = "acq"}) + nstats

\* line 63: len(user_requests) >= self.max_requests
LimitReachedOffByOne(n) == n > max_requests
LimitReached(n) == n >= max_requests

\* a thread calls check_limit(user_id) and reaches `with self._lock`
CallCheck(t, k) ==
    /\ tpc[t] = "idle"
    /\ Started < Budget
    /\ tpc' = [tpc EXCEPT ![t] = "acq"]
    /\ tkey' = [tkey EXCEPT ![t] = k]
    /\ UNCHANGED <<max_requests, window_seconds, requests, stats, lock, clock,
                   tnow, ur, tres, snap, snapshot, nstats, admits>>
    /\ UNCHANGED sdvars

\* lines 53-61: take the lock, count the check, read the clock, prune
CheckEnter(t) ==
    /\ tpc[t] = "acq"
    /\ CheckLockFree
    /\ lock' = t
    /\ stats' = [stats EXCEPT !.total_checks = @ + 1]
    /\ tnow' = [tnow EXCEPT ![t] = clock]
    /\ LET pruned == Prune(GetLog(tkey[t]), clock - window_seconds) IN
         /\ ur' = [ur EXCEPT ![t] = pruned]
         /\ requests' = SetLog(tkey[t], pruned)
    /\ tpc' = [tpc EXCEPT ![t] = "l63"]
    /\ UNCHANGED <<max_requests, window_seconds, clock, tkey, tres, snap,
                   snapshot, nstats, admits>>
    /\ UNCHANGED sdvars

\* lines 63-76: what a denied call leaves in self.requests[user_id]: the
\* pruned list stored at line 61, nothing appended
DeniedLogRecords(log, now) == Append(log, now)
DeniedLog(log, now) == log

\* lines 63-76: the limit is reached: deny with a retry hint.  The frame of
\* the call (user_id, current_time, user_requests) is dropped on return.
\* min() of an empty list (max_requests <= 0) raises ValueError at line 64:
\* the call ends there, and the `with` statement releases the lock.
CheckDeny(t) ==
    /\ tpc[t] = "l63"
    /\ LimitReached(Len(ur[t]))
    /\ IF ur[t] = << >>
          THEN /\ tres' = [key |-> tkey[t], now |-> tnow[t], allowed |-> FALSE,
                           retry |-> -1, error |-> "ValueError"]
               /\ UNCHANGED stats
          ELSE /\ LET oldest_request == SeqMin(ur[t])
                      retry_after == oldest_request + window_seconds - tnow[t]
                  IN tres' = [key |-> tkey[t], now |-> tnow[t], allowed |-> FALSE,
                              retry |-> RetryAfterInt(retry_after), error |-> "none"]
               /\ stats' = [stats EXCEPT !.blocked = @ + 1]
    /\ requests' = SetLog(tkey[t], DeniedLog(GetLog(tkey[t]), tnow[t]))
    /\ lock' = IF lock = t THEN NoThread ELSE lock
    /\ tpc' = [tpc EXCEPT ![t] = "idle"]
    /\ tkey' = [tkey EXCEPT ![t] = "u1"]
    /\ tnow' = [tnow EXCEPT ![t] = 0]
    /\ ur' = [ur EXCEPT ![t] = << >>]
    /\ UNCHANGED <<max_requests, window_seconds, clock, snap,
                   snapshot, nstats, admits>>
    /\ UNCHANGED sdvars

\* line 63, condition false: go on to record the request
CheckPass(t) ==
    /\ tpc[t] = "l63"
    /\ ~LimitReached(Len(ur[t]))
    /\ tpc' = [tpc EXCEPT ![t] = "l78"]
    /\ UNCHANGED <<max_requests, window_seconds, requests, stats, lock, clock,
                   tkey, tnow, ur, tres, snap, snapshot, nstats, admits>>
    /\ UNCHANGED sdvars

\* lines 78-85: append, update the statistics, allow
CheckAllow(t) ==
    /\ tpc[t] = "l78"
    /\ LET log == Append(ur[t], tnow[t])
           reqs == SetLog(tkey[t], log)
           n == Cardinality(DOMAIN reqs)
       IN /\ requests' = reqs
          /\ stats' = [stats EXCEPT
                         !.users_tracked = IF n > @ THEN n ELSE @,
                         !.allowed = @ + 1]
    /\ tres' = [key |-> tkey[t], now |-> tnow[t], allowed |-> TRUE, retry |-> -1,
                error |-> "none"]
    /\ admits' = [admits EXCEPT ![tkey[t]] = Append(@, tnow[t])]
    /\ lock' = IF lock = t THEN NoThread ELSE lock
    /\ tpc' = [tpc EXCEPT ![t] = "idle"]
    /\ tkey' = [tkey EXCEPT ![t] = "u1"]
    /\ tnow' = [tnow EXCEPT ![t] = 0]
    /\ ur' = [ur EXCEPT ![t] = << >>]
    /\ UNCHANGED <<max_requests, window_seconds, clock, snap, snapshot, nstats>>
    /\ UNCHANGED sdvars

\* a thread calls get_stats() and reaches `with self._lock`
CallStats(t) ==
    /\ tpc[t] = "idle"
    /\ Started < Budget
    /\ nstats' = nstats + 1
    /\ tpc' = [tpc EXCEPT ![t] = "gacq"]
    /\ UNCHANGED <<max_requests, window_seconds, requests, stats, lock, clock,
                   tkey, tnow, ur, tres, snap, snapshot, admits>>
    /\ UNCHANGED sdvars

\* lines 89-90: take the lock, total = self.stats['total_checks']
StatsEnter(t) ==
    /\ tpc[t] = "gacq"
    /\ StatsLockFree
    /\ lock' = t
    /\ snap' = [snap EXCEPT ![t] = [NoSnap EXCEPT !.total_checks = stats.total_checks]]
    /\ tpc' = [tpc EXCEPT ![t] = "g91"]
    /\ UNCHANGED <<max_requests, window_seconds, requests, stats, clock, tkey,
                   tnow, ur, tres, snapshot, nstats, admits>>
    /\ UNCHANGED sdvars

\* lines 91-101: build and return the dict
StatsReturn(t) ==
    /\ tpc[t] = "g91"
    /\ snapshot' = [snap[t] EXCEPT !.allowed = stats.allowed,
                                    !.blocked = stats.blocked,
                                    !.users = Cardinality(DOMAIN requests)]
    /\ snap' = [snap EXCEPT ![t] = NoSnap]
    /\ lock' = IF lock = t THEN NoThread ELSE lock
    /\ tpc' = [tpc EXCEPT ![t] = "idle"]
    /\ UNCHANGED <<max_requests, window_seconds, requests, stats, clock, tkey,
                   tnow, ur, tres, nstats, admits>>
    /\ UNCHANGED sdvars

NextRL ==
    \/ Tick
    \/ \E t \in Threads, k \in Keys : CallCheck(t, k)
    \/ \E t \in Threads : CheckEnter(t)
    \/ \E t \in Threads : CheckDeny(t)
    \/ \E t \in Threads : CheckPass(t)
    \/ \E t \in Threads : CheckAllow(t)
    \/ \E t \in Threads : CallStats(t)
    \/ \E t \in Threads : StatsEnter(t)
    \/ \E t \in Threads : StatsReturn(t)

\* GracefulShutdownManager.__init__
SDStartWatching(r) ==
    /\ background_tasks = << >>
    /\ pending_operations = 0
    /\ shutdown_handlers = << >>
    /\ shutting_down = FALSE
    /\ tstate = [t \in TaskIds |-> "new"]
    /\ pc = [c \in Callers |-> "idle"]
    /\ idx = [c \in Callers |-> 0]
    /\ elapsed = [c \in Callers |-> 0]
    /\ gathered = [c \in Callers |-> {}]
    /\ ncalls = 0
    /\ overlapped = [c \in Callers |-> FALSE]
    /\ noverlap = 0
    /\ runs = 0
    /\ runner = "c1"
    /\ prevInv = << >>
    /\ invLog = << >>
    /\ ndone = 0
    /\ hret = -1
    /\ drainRes = "none"
    /\ cancelPhase = FALSE
    /\ cancelReq = {}
    /\ failures = {}
    /\ zeroSeen = -1
    /\ lateTasks = {}
    /\ watchRun = r

SDStart == SDStartWatching(0)

\* a limiter of any configuration, and a fresh shutdown manager beside it
RLInit ==
    /\ \E m \in 1..MaxReqCfg, w \in 1..MaxWinCfg : RLStart(m, w)
    /\ SDStart

SpecRL == RLInit /\ [][NextRL]_vars

\* a window of more than one second that is no whole number of seconds
FractionalWindow == TicksPerSec + 1

\* the same limiter constructed with the small configurations, with the
\* defaults, or with one request per fractional window
RLInitAll ==
    /\ \/ \E m \in 1..MaxReqCfg, w \in 1..MaxWinCfg : RLStart(m, w)
       \/ RLStart(DEFAULT_MAX_REQUESTS, DEFAULT_WINDOW_SECONDS * TicksPerSec)
       \/ RLStart(1, FractionalWindow)
    /\ SDStart

SpecRLAll == RLInitAll /\ [][NextRL]_vars

\* RateLimitValidator.validate_rate_limit_config: is_valid.  A window that is
\* no whole number of seconds is no int.  RateLimiter.__init__ does not call
\* it, and checks nothing itself.
MAX_REQUESTS_LIMIT == 10000
MAX_WINDOW_SECONDS == 86400
validate_rate_limit_config(m, w) ==
    /\ m > 0
    /\ w % TicksPerSec = 0 /\ w > 0
    /\ ~(m > MAX_REQUESTS_LIMIT)
    /\ ~(w > MAX_WINDOW_SECONDS * TicksPerSec)

\* the arguments a caller can hand to RateLimiter(): in the range, at its
\* edges and outside it
AnyMaxRequests == {0, 1, MAX_REQUESTS_LIMIT + 1}
AnyWindowSeconds == {0, 1, TicksPerSec, (MAX_WINDOW_SECONDS + 1) * TicksPerSec}

RLInitAny ==
    /\ \E m \in AnyMaxRequests, w \in AnyWindowSeconds : RLStart(m, w)
    /\ SDStart

SpecRLAny == RLInitAny /\ [][NextRL]_vars

\* ------------------------------------------------- RateLimiter: properties
\* the calls for k that returned True at a time in the window [s, s + window)
AdmitsIn(k, s) ==
    {i \in 1..Len(admits[k]) : s <= admits[k][i] /\ admits[k][i] < s + window_seconds}

\* C1: for every key, at most max_requests calls return allowed=true within
\* any window_seconds-wide interval of time.  The interval is the half-open
\* one the limiter itself uses: two calls exactly window_seconds apart are
\* not in one window (the pruning boundary).
C1_AtMostMaxPerWindow ==
    \A k \in Keys : \A s \in 0..clock :
        Cardinality(AdmitsIn(k, s)) <= max_requests

\* the window did its work: a key was admitted more often than max_requests
\* in all, and was also denied
C1_Witness ==
    \E k \in Keys :
        /\ Len(admits[k]) > max_requests
        /\ tres.key = k /\ tres.now >= 0 /\ ~tres.allowed

\* a thread is between the prune and the end of check_limit
InCheck(t) == tpc[t] \in {"l63", "l78"}

\* C2: the prune-check-append sequence of one check_limit call is atomic
\* with respect to every other call: while a call is deciding, the stored
\* log of its key is the log it pruned, no other call is deciding, and the
\* timestamps recorded for a key plus the calls that saw "count below the
\* threshold" and have not appended yet never exceed max_requests (two
\* calls never both take the last slot).
C2_CheckIsAtomic ==
    /\ \A t \in Threads : InCheck(t) => GetLog(tkey[t]) = ur[t]
    /\ \A t, u \in Threads : (t # u /\ InCheck(t)) => tpc[u] \notin {"l63", "l78", "g91"}
    /\ \A k \in Keys :
          Len(GetLog(k)) + Cardinality({t \in Threads : tpc[t] = "l78" /\ tkey[t] = k})
             <= max_requests

\* one slot remains for a key, one call is about to take it and a second
\* call for the same key is waiting at the lock
C2_Witness ==
    \E t, u \in Threads :
        /\ t # u
        /\ tpc[t] = "l78" /\ Len(ur[t]) = max_requests - 1
        /\ tpc[u] = "acq" /\ tkey[u] = tkey[t]

\* C3: every snapshot returned by get_stats has
\* allowed + blocked = total_checks, and the statistics themselves satisfy
\* the equality whenever no check_limit call is in its critical section.
C3_StatsConsistent ==
    /\ snapshot # NoSnap => snapshot.allowed + snapshot.blocked = snapshot.total_checks
    /\ (\A t \in Threads : ~InCheck(t)) =>
           stats.allowed + stats.blocked = stats.total_checks

\* a snapshot that counts admissions and denials, returned while another
\* thread was waiting to enter check_limit
C3_Witness ==
    /\ snapshot # NoSnap
    /\ snapshot.allowed >= 1 /\ snapshot.blocked >= 1
    /\ \E t \in Threads : tpc[t] = "acq"

\* ------------------------------------------------ GracefulShutdownManager
\* Everything runs on one event loop: an action is the code from one await
\* to the next.  A failure is named by the class it is an instance of:
\* "Exception" (any subclass of Exception), "BaseException" (SystemExit,
\* KeyboardInterrupt, or a CancelledError raised by the awaited code itself),
\* "TimeoutError" (asyncio.TimeoutError, an Exception) and "CancelledError"
\* (the cancellation of the task that runs graceful_shutdown, delivered at
\* the await it is suspended in; a BaseException).
Raisable == {"Exception", "BaseException"}
Outcomes == {"ok"} \cup Raisable

\* line 112: asyncio.iscoroutinefunction(handler)
iscoroutinefunction(h) == h = "hA"

\* line 118: `except Exception` around one handler
HandlerLoopCatchesAll(e) == TRUE
HandlerLoopCatchesNone(e) == FALSE
HandlerLoopCatches(e) == e \in {"Exception", "TimeoutError"}

\* lines 95-98: `except asyncio.TimeoutError` / `except Exception` around the gather
CancelTasksCatches(e) == e \in {"Exception", "TimeoutError"}

\* line 150: `except Exception` of graceful_shutdown
ShutdownCatches(e) == e \in {"Exception", "TimeoutError"}

\* task.done()
done(t) == tstate[t] = "done"

\* the tasks of a list
TaskSetFirstOnly(l) == IF l = << >> THEN {} ELSE {l[1]}
TaskSet(l) == {l[i] : i \in 1..Len(l)}

\* task.cancel() on every task of ts that is not done (lines 83-86)
CancelAll(ts) ==
    [t \in TaskIds |-> IF t \in ts /\ tstate[t] = "running" THEN "cancelling" ELSE tstate[t]]

\* a call of graceful_shutdown that is past the guard and has not left
ActivePcs == {"exec", "in_handler", "drain", "sleep", "cancel", "gather", "gather_cancelled"}
\* the awaits a call can be suspended in (lines 113, 65, 90)
SuspendedPcs == {"in_handler", "sleep", "gather", "gather_cancelled"}
\* how a call ends: by the guard (line 134), normally, or with an exception
FinalPcs == {"rejected", "returned", "raised"}
InFlight(c) == pc[c] \in ActivePcs

FailName(e) == IF e = "Exception" THEN "handler_exception" ELSE "handler_base"

calls == <<ncalls, overlapped, noverlap, runs, runner>>
hist == <<invLog, ndone, hret, drainRes, cancelPhase, cancelReq, failures>>
fields == <<background_tasks, pending_operations, shutdown_handlers>>
frames == <<pc, idx, elapsed, gathered, shutting_down>>

\* get_status()
get_status ==
    [shutting_down |-> shutting_down,
     pending_operations |-> pending_operations,
     background_tasks |-> Len(background_tasks),
     active_tasks |-> Cardinality({i \in 1..Len(background_tasks) : ~done(background_tasks[i])}),
     shutdown_handlers |-> Len(shutdown_handlers)]

\* The behaviour is followed as long as a call of graceful_shutdown is in
\* progress or can still be made.
Live == ncalls < MaxCalls \/ \E c \in Callers : pc[c] \in ActivePcs

\* The event loop runs one thing at a time: while a call of graceful_shutdown
\* is between two of its awaits nothing else runs, no registration, no
\* counting hook, no task and no other call.
LoopFree == \A c \in Callers : pc[c] \notin ActivePcs \ SuspendedPcs

\* callers and tasks are named in the order in which they first appear, and
\* a caller calls again only when every caller has called
FirstCaller == "c1"
FirstTask == "t1"

\* ---- registration and counting hooks (callable at any time)
\* register_background_task: the entry point spawns a task and registers it
register_background_task(t) ==
    /\ Live /\ LoopFree
    /\ tstate[t] = "new"
    /\ t = FirstTask \/ tstate[FirstTask] # "new"
    /\ tstate' = [tstate EXCEPT ![t] = "running"]
    /\ background_tasks' = Append(background_tasks, t)
    /\ UNCHANGED <<pending_operations, shutdown_handlers, frames, calls, hist, rlvars>>
    /\ UNCHANGED zeroSeen
    /\ UNCHANGED prevInv
    \* a registration is late when it happens while the run is suspended in
    \* a handler (line 114) or in the sleep of the drain wait (line 65)
    /\ UNCHANGED watchRun
    /\ lateTasks' = IF runs = watchRun /\ \E c \in Callers : pc[c] \in {"in_handler", "sleep"}
                     THEN lateTasks \cup {t} ELSE lateTasks

register_shutdown_handler(h) ==
    /\ Live /\ LoopFree
    /\ Len(shutdown_handlers) < MaxHandlers
    /\ shutdown_handlers' = Append(shutdown_handlers, h)
    /\ UNCHANGED <<background_tasks, pending_operations, tstate, frames, calls,
                   hist, rlvars>>
    /\ UNCHANGED zeroSeen
    /\ UNCHANGED prevInv
    /\ UNCHANGED <<lateTasks, watchRun>>

increment_pending_operations ==
    /\ Live /\ LoopFree
    /\ pending_operations < MaxPending
    /\ pending_operations' = pending_operations + 1
    /\ UNCHANGED <<background_tasks, shutdown_handlers, tstate, frames, calls,
                   hist, rlvars>>
    /\ UNCHANGED zeroSeen
    /\ UNCHANGED prevInv
    /\ UNCHANGED <<lateTasks, watchRun>>

\* line 39: if self.pending_operations > 0
AboveZeroNotAsked == TRUE
AboveZero == pending_operations > 0

decrement_pending_operations ==
    /\ Live /\ LoopFree
    /\ pending_operations' = IF AboveZero THEN pending_operations - 1
                             ELSE pending_operations
    /\ UNCHANGED <<background_tasks, shutdown_handlers, tstate, frames, calls,
                   hist, rlvars>>
    /\ zeroSeen' = IF /\ pending_operations = 1 /\ zeroSeen = -1
                       /\ \E c \in Callers : pc[c] = "sleep"
                    THEN elapsed[CHOOSE c \in Callers : pc[c] = "sleep"]
                    ELSE zeroSeen
    /\ UNCHANGED prevInv
    /\ UNCHANGED <<lateTasks, watchRun>>

\* ---- the tracked tasks
\* a task ends: it runs to its end, or it honours a cancel() request
TaskEnds(t) ==
    /\ Live /\ LoopFree
    /\ tstate[t] \in {"running", "cancelling"}
    /\ tstate' = [tstate EXCEPT ![t] = "done"]
    /\ UNCHANGED <<fields, frames, calls, hist, rlvars>>
    /\ UNCHANGED zeroSeen
    /\ UNCHANGED prevInv
    /\ UNCHANGED <<lateTasks, watchRun>>

\* ---- graceful_shutdown
\* The call of c moves to p.  Leaving graceful_shutdown from the try block
\* runs lines 152-153 (finally: self._shutting_down = False) and drops the
\* frame of the call.
GotoNoFinally(c, p, i, el, g) ==
    LET out == p \in {"returned", "raised"} IN
    /\ pc' = [pc EXCEPT ![c] = p]
    /\ shutting_down' = shutting_down
    /\ idx' = [idx EXCEPT ![c] = IF out THEN 0 ELSE i]
    /\ elapsed' = [elapsed EXCEPT ![c] = IF out THEN 0 ELSE el]
    /\ gathered' = [gathered EXCEPT ![c] = IF out THEN {} ELSE g]
    /\ prevInv' = IF p \in {"exec", "in_handler"} THEN prevInv ELSE << >>
    /\ lateTasks' = IF out THEN {} ELSE lateTasks
    /\ UNCHANGED watchRun

Goto(c, p, i, el, g) ==
    LET out == p \in {"returned", "raised"} IN
    /\ pc' = [pc EXCEPT ![c] = p]
    /\ shutting_down' = IF out THEN FALSE ELSE shutting_down
    /\ idx' = [idx EXCEPT ![c] = IF out THEN 0 ELSE i]
    /\ elapsed' = [elapsed EXCEPT ![c] = IF out THEN 0 ELSE el]
    /\ gathered' = [gathered EXCEPT ![c] = IF out THEN {} ELSE g]
    /\ prevInv' = IF p \in {"exec", "in_handler"} THEN prevInv ELSE << >>
    /\ lateTasks' = IF out THEN {} ELSE lateTasks
    /\ UNCHANGED watchRun

\* the same, with the frame as it is
Move(c, p) == Goto(c, p, idx[c], elapsed[c], gathered[c])

\* lines 132-134: the re-entrancy guard
GuardRejectsNever == FALSE
GuardRejects == shutting_down

\* line 136: self._shutting_down = True
FlagNotSet == shutting_down
FlagSet == TRUE

\* line 134: the `return` of the guard is outside the try block, so the
\* finally of line 152 does not run: the flag stays as it is
FlagAfterRejectionReset == FALSE
FlagAfterRejection == shutting_down

\* lines 132-137: a call arrives. It is turned away by the guard, or sets
\* the flag and enters the try block.
Call(c) ==
    /\ \/ pc[c] = "idle" /\ (c = FirstCaller \/ pc[FirstCaller] # "idle")
       \/ pc[c] \in FinalPcs /\ \A d \in Callers : pc[d] # "idle"
    /\ LoopFree
    /\ ncalls < MaxCalls
    /\ ncalls' = ncalls + 1
    /\ LET over == \E d \in Callers : InFlight(d) IN
         /\ overlapped' = [overlapped EXCEPT ![c] = over]
         /\ noverlap' = noverlap + (IF over THEN 1 ELSE 0)
    /\ IF GuardRejects
          THEN /\ pc' = [pc EXCEPT ![c] = "rejected"]
               /\ shutting_down' = FlagAfterRejection
               /\ UNCHANGED <<idx, elapsed, gathered, runs, runner,
                              prevInv, hist, zeroSeen, lateTasks>>
          ELSE /\ pc' = [pc EXCEPT ![c] = "exec"]
               /\ shutting_down' = FlagSet
               /\ idx' = [idx EXCEPT ![c] = 1]
               /\ UNCHANGED <<elapsed, gathered>>
               /\ runs' = runs + 1
               /\ runner' = c
               /\ prevInv' = invLog
               /\ invLog' = << >>
               /\ ndone' = 0
               /\ hret' = -1
               /\ drainRes' = "none"
               /\ cancelPhase' = FALSE
               /\ cancelReq' = {}
               /\ failures' = {}
               /\ zeroSeen' = -1
               /\ lateTasks' = {}
    /\ UNCHANGED <<fields, tstate, rlvars, watchRun>>

\* what an exception e raised inside the handler loop does to the call:
\* caught at line 118 the loop goes on; caught at line 150 the call skips
\* the rest of the sequence; otherwise it leaves graceful_shutdown.
RaisedInLoop(c, e, name) ==
    /\ failures' = failures \cup {name}
    /\ ndone' = ndone + 1
    /\ IF HandlerLoopCatches(e)
          THEN Goto(c, "exec", idx[c] + 1, elapsed[c], gathered[c])
          ELSE Move(c, IF ShutdownCatches(e) THEN "returned" ELSE "raised")

\* the handler the iteration of line 108 yields at position i
HandlerAtReversed(i) == shutdown_handlers[Len(shutdown_handlers) + 1 - i]
HandlerAt(i) == shutdown_handlers[i]

\* lines 108-115, plain function: the loop reaches a handler and calls it;
\* the handler runs to its end, or raises, before anything else can run
CallHandler(c, o) ==
    /\ pc[c] = "exec"
    /\ idx[c] <= Len(shutdown_handlers)
    /\ ~iscoroutinefunction(HandlerAt(idx[c]))
    /\ invLog' = Append(invLog, HandlerAt(idx[c]))
    /\ IF o = "ok"
          THEN /\ Goto(c, "exec", idx[c] + 1, elapsed[c], gathered[c])
               /\ ndone' = ndone + 1
               /\ UNCHANGED failures
          ELSE RaisedInLoop(c, o, FailName(o))
    /\ UNCHANGED <<fields, tstate, calls, hret, drainRes, cancelPhase, cancelReq, rlvars>>
    /\ UNCHANGED zeroSeen

\* lines 108-113, coroutine function: the handler is started and awaited
AwaitHandler(c) ==
    /\ pc[c] = "exec"
    /\ idx[c] <= Len(shutdown_handlers)
    /\ iscoroutinefunction(HandlerAt(idx[c]))
    /\ invLog' = Append(invLog, HandlerAt(idx[c]))
    /\ Move(c, "in_handler")
    /\ UNCHANGED <<fields, tstate, calls, ndone, hret, drainRes, cancelPhase,
                   cancelReq, failures, rlvars>>
    /\ UNCHANGED zeroSeen

\* line 113: the awaited handler finishes, by returning or by raising
HandlerFinishes(c, o) ==
    /\ pc[c] = "in_handler"
    /\ IF o = "ok"
          THEN /\ Goto(c, "exec", idx[c] + 1, elapsed[c], gathered[c])
               /\ ndone' = ndone + 1
               /\ UNCHANGED failures
          ELSE RaisedInLoop(c, o, FailName(o))
    /\ UNCHANGED <<fields, tstate, calls, invLog, hret, drainRes, cancelPhase,
                   cancelReq, rlvars>>
    /\ UNCHANGED zeroSeen

\* lines 102-104, 121 and 52: the handler phase returns (at once when no
\* handler is registered) and wait_for_pending_operations takes start_time
HandlersReturn(c) ==
    /\ pc[c] = "exec"
    /\ idx[c] > Len(shutdown_handlers)
    /\ hret' = Len(shutdown_handlers)
    /\ Goto(c, "drain", idx[c], 0, gathered[c])
    /\ UNCHANGED <<fields, tstate, calls, invLog, ndone, drainRes, cancelPhase,
                   cancelReq, failures, rlvars>>
    /\ UNCHANGED zeroSeen

\* lines 144-147: the result of wait_for_pending_operations is not looked
\* at; cancel_background_tasks comes next
AfterDrainOnlyIfDrained(r) == IF r = "true" THEN "cancel" ELSE "returned"
AfterDrain(r) == "cancel"

\* line 57: elapsed > timeout
TimedOutAtTimeout(el) == el >= DrainTimeout
TimedOut(el) == el > DrainTimeout

\* lines 54-68: one turn of the polling loop
DrainPoll(c) ==
    /\ pc[c] = "drain"
    /\ IF pending_operations > 0
          THEN IF TimedOut(elapsed[c])
                  THEN /\ drainRes' = "timeout"
                       /\ failures' = failures \cup {"drain_timeout"}
                       /\ Move(c, AfterDrain("timeout"))
                  ELSE /\ Move(c, "sleep")
                       /\ UNCHANGED <<drainRes, failures>>
          ELSE /\ drainRes' = "true"
               /\ Move(c, AfterDrain("true"))
               /\ UNCHANGED failures
    /\ UNCHANGED <<fields, tstate, calls, invLog, ndone, hret, cancelPhase,
                   cancelReq, rlvars>>
    /\ UNCHANGED zeroSeen

\* line 65: asyncio.sleep(0.1) is over: one poll interval has gone by
DrainWake(c) ==
    /\ pc[c] = "sleep"
    /\ Goto(c, "drain", idx[c], elapsed[c] + 1, gathered[c])
    /\ UNCHANGED <<fields, tstate, calls, hist, rlvars>>
    /\ UNCHANGED zeroSeen

\* lines 77-93: cancel_background_tasks up to its await.  (The frame of
\* wait_for_pending_operations, elapsed, is gone.)  With no task
\* tracked it returns at once and so does graceful_shutdown (lines 149-153).
\* gather(..., return_exceptions=True) hands the exception of a task back
\* as a value, so the wait ends by its result or by its timeout only.
CancelTasks(c) ==
    /\ pc[c] = "cancel"
    /\ cancelPhase' = TRUE
    /\ IF background_tasks = << >>
          THEN /\ Move(c, "returned")
               /\ UNCHANGED <<tstate, cancelReq>>
          ELSE /\ tstate' = CancelAll(TaskSet(background_tasks))
               /\ cancelReq' = {t \in TaskSet(background_tasks) : ~done(t)}
               /\ Goto(c, "gather", idx[c], 0, TaskSet(background_tasks))
    /\ UNCHANGED <<fields, calls, invLog, ndone, hret, drainRes, failures, rlvars>>
    /\ zeroSeen' = -1

\* lines 90-94 and 149-153: every gathered task is done, the wait returns
GatherDone(c) ==
    /\ pc[c] = "gather"
    /\ \A t \in gathered[c] : done(t)
    /\ Move(c, "returned")
    /\ UNCHANGED <<fields, tstate, calls, hist, rlvars>>
    /\ UNCHANGED zeroSeen

\* line 92: the timeout of asyncio.wait_for expires with a task not done.
\* wait_for cancels the gather, which calls cancel() on its tasks again, and
\* goes on waiting until the gather has ended.
GatherTimeout(c) ==
    /\ pc[c] = "gather"
    /\ \E t \in gathered[c] : ~done(t)
    /\ tstate' = CancelAll(gathered[c])
    /\ failures' = failures \cup {"cancel_timeout"}
    /\ Move(c, "gather_cancelled")
    /\ UNCHANGED <<fields, calls, invLog, ndone, hret, drainRes, cancelPhase,
                   cancelReq, rlvars>>
    /\ UNCHANGED zeroSeen

\* lines 90-93, after the timeout: asyncio.wait_for awaits the gather it has
\* cancelled, which ends when every task handed to it has ended
CancelledGatherAbandoned(g) == TRUE
CancelledGatherEnded(g) == \A t \in g : done(t)

\* lines 95-96 and 149-153: the cancelled gather has ended, wait_for raises
\* asyncio.TimeoutError, which is caught and logged
GatherTimedOut(c) ==
    /\ pc[c] = "gather_cancelled"
    /\ CancelledGatherEnded(gathered[c])
    /\ Move(c, IF CancelTasksCatches("TimeoutError") \/ ShutdownCatches("TimeoutError")
                  THEN "returned" ELSE "raised")
    /\ UNCHANGED <<fields, tstate, calls, hist, rlvars>>
    /\ UNCHANGED zeroSeen

\* The task running graceful_shutdown is cancelled while it is suspended:
\* CancelledError is raised at the await.  In the handler loop it meets
\* line 118, elsewhere lines 97 and 150; in the gather wait_for passes the
\* cancellation on to the gathered tasks.
CancelFlow(c) ==
    /\ pc[c] \in SuspendedPcs
    /\ IF pc[c] = "in_handler"
          THEN /\ RaisedInLoop(c, "CancelledError", "flow_cancelled")
               /\ UNCHANGED tstate
          ELSE /\ failures' = failures \cup {"flow_cancelled"}
               /\ tstate' = IF pc[c] = "sleep" THEN tstate ELSE CancelAll(gathered[c])
               /\ Move(c, IF \/ ShutdownCatches("CancelledError")
                             \/ (pc[c] # "sleep" /\ CancelTasksCatches("CancelledError"))
                             THEN "returned" ELSE "raised")
               /\ UNCHANGED ndone
    /\ UNCHANGED <<fields, calls, invLog, hret, drainRes, cancelPhase, cancelReq, rlvars>>
    /\ zeroSeen' = -1

\* the steps the event loop itself takes for a call of graceful_shutdown
FlowStep(c) ==
    \/ \E o \in Outcomes : CallHandler(c, o)
    \/ AwaitHandler(c)
    \/ HandlersReturn(c)
    \/ DrainPoll(c)
    \/ DrainWake(c)
    \/ CancelTasks(c)
    \/ GatherDone(c)
    \/ GatherTimeout(c)
    \/ GatherTimedOut(c)

NextSD ==
    \/ \E t \in TaskIds : register_background_task(t)
    \/ \E h \in HandlerIds : register_shutdown_handler(h)
    \/ increment_pending_operations
    \/ decrement_pending_operations
    \/ \E t \in TaskIds : TaskEnds(t)
    \/ \E c \in Callers : Call(c)
    \/ \E c \in Callers : FlowStep(c)
    \/ \E c \in Callers, o \in Outcomes : HandlerFinishes(c, o)
    \/ \E c \in Callers : CancelFlow(c)

\* a fresh shutdown manager, and a limiter with the default configuration
SDInit ==
    /\ SDStart
    /\ RLStart(DEFAULT_MAX_REQUESTS, DEFAULT_WINDOW_SECONDS * TicksPerSec)

SpecSD == SDInit /\ [][NextSD]_vars

\* the same manager, with the registrations made during its first run recorded
SDInitLate ==
    /\ SDStartWatching(1)
    /\ RLStart(DEFAULT_MAX_REQUESTS, DEFAULT_WINDOW_SECONDS * TicksPerSec)

SpecSDLate == SDInitLate /\ [][NextSD]_vars

\* The event loop runs every call that is ready to run and fires every
\* timer; nothing makes a handler return, a task end or a caller decrement.
FairSpecSD == SpecSD /\ \A c \in Callers : WF_vars(FlowStep(c))

\* ------------------------------------ GracefulShutdownManager: properties
Finished(c) == pc[c] \in FinalPcs
BaseFailures == {"handler_base", "flow_cancelled"}

\* C4 as stated: graceful_shutdown is idempotent: two invocations, the second
\* overlapping the first or coming after it has returned, result in exactly
\* one run of the handler -> drain -> cancel sequence.
C4_TwoCallsOneRun ==
    (ncalls >= 2 /\ \A c \in Callers : ~InFlight(c)) => runs = 1

\* C4, amended: an invocation that begins while another call is in progress
\* is turned away without running anything, so that two overlapping
\* invocations result in exactly one run; an invocation that begins when no
\* call is in progress runs the sequence (again).
C4_OverlappingCallsOneRun ==
    /\ runs = ncalls - noverlap
    /\ \A c \in Callers : (pc[c] # "idle" /\ overlapped[c]) => pc[c] = "rejected"
    /\ \A c \in Callers : pc[c] = "rejected" => overlapped[c]

\* two invocations, the second one made while the first was awaiting a
\* handler; both have ended and the handlers ran once
C4_Witness ==
    /\ ncalls = 2 /\ noverlap = 1 /\ runs = 1
    /\ \A c \in Callers : Finished(c)
    /\ pc[runner] = "returned"
    /\ Len(invLog) = 2 /\ hret = 2

\* C5: at most one execution of the shutdown sequence is in progress at any
\* time, and a call that arrives while the state is ShuttingDown returns at
\* once: it invokes no handler, waits for nothing, cancels no task, and
\* starts no run, neither then nor later (a run starts only with a call).
C5_OneRunAtATime ==
    /\ [](Cardinality({c \in Callers : InFlight(c)}) <= 1)
    /\ [][ /\ \A c \in Callers :
                (shutting_down /\ ~InFlight(c) /\ pc'[c] # pc[c]) =>
                    /\ pc'[c] = "rejected"
                    /\ UNCHANGED <<fields, tstate, shutting_down, runs, runner, hist>>
           /\ runs' # runs => ncalls' = ncalls + 1 ]_vars

\* a call was turned away while the run in progress is suspended in a handler
C5_Witness ==
    \E c, d \in Callers :
        /\ pc[c] = "rejected"
        /\ pc[d] = "in_handler"
        /\ Len(invLog) = 1

\* C6 as stated: when a call of graceful_shutdown that ran the sequence
\* returns, get_status reports shutting_down = false and
\* pending_operations = 0.
C6_StatusAfterShutdown ==
    [][ \A c \in Callers :
          (InFlight(c) /\ pc'[c] = "returned") =>
              (~shutting_down' /\ pending_operations' = 0) ]_vars

\* C7: in one run no cancellation request is issued before every registered
\* handler has been invoked (and has finished) and the drain wait has
\* returned; the drain wait starts after the handler phase; and the run
\* that returns has been through the cancellation phase, whether the drain
\* wait returned true or timed out.
C7_PhaseOrder ==
    runs > 0 =>
        /\ (cancelPhase \/ cancelReq # {}) => (drainRes # "none" /\ hret >= 0)
        /\ (drainRes # "none" \/ pc[runner] \in {"drain", "sleep"}) =>
               (hret >= 0 /\ Len(invLog) = hret /\ ndone = hret)
        /\ runs = 1 =>
               ((\E t \in TaskIds : tstate[t] = "cancelling") => cancelPhase)
        /\ pc[runner] = "returned" =>
               (cancelPhase /\ drainRes \in {"true", "timeout"})

\* a run whose drain wait timed out has cancelled a task and returned
C7_Witness ==
    /\ runs > 0 /\ pc[runner] = "returned"
    /\ drainRes = "timeout" /\ cancelReq # {}
    /\ hret = 2

\* C8 as stated: every call of graceful_shutdown eventually returns.
C8_EveryCallReturns ==
    \A c \in Callers : InFlight(c) ~> ~InFlight(c)

\* C9 as stated: no failure inside the shutdown sequence propagates out of
\* graceful_shutdown; the call always returns normally.
C9_NothingPropagates ==
    \A c \in Callers : pc[c] # "raised"

\* C9, amended: a failure that is an Exception (a handler raising one, the
\* drain timeout, the timeout of the cancellation) never propagates out of
\* graceful_shutdown; the call ends with an exception exactly when the flow
\* was cancelled or a handler raised a BaseException that is no Exception,
\* and then too the state is back to Idle.
C9_OnlyBaseExceptionsPropagate ==
    runs > 0 =>
        /\ pc[runner] = "raised" => failures \cap BaseFailures # {}
        /\ pc[runner] = "returned" => failures \cap BaseFailures = {}
        /\ (Finished(runner) /\ \A c \in Callers : ~InFlight(c)) => ~shutting_down

\* a run met a raising handler, a drain timeout and a cancellation timeout
\* and returned normally
C9_Witness ==
    /\ runs > 0 /\ pc[runner] = "returned"
    /\ failures = {"handler_exception", "drain_timeout", "cancel_timeout"}

\* C10: in one run of execute_shutdown_handlers the handlers are invoked in
\* registration order, each entry of the list once, and a handler is
\* invoked only when the one before it has finished; when the phase returns
\* every registered handler has been invoked.
C10_HandlersInOrder ==
    runs > 0 =>
        /\ Len(invLog) <= Len(shutdown_handlers)
        /\ invLog = SubSeq(shutdown_handlers, 1, Len(invLog))
        /\ ndone <= Len(invLog) /\ Len(invLog) <= ndone + 1
        /\ (Len(invLog) = ndone + 1) <=> (pc[runner] = "in_handler")
        /\ pc[runner] \in {"exec", "in_handler"} => idx[runner] = ndone + 1
        /\ hret >= 0 => (Len(invLog) = hret /\ ndone = hret)

\* two different handlers were registered and the phase has returned
C10_Witness ==
    /\ runs > 0 /\ hret = 2
    /\ invLog = <<"hS", "hA">>
    /\ shutdown_handlers = <<"hS", "hA">>

\* the failures a handler raises itself
HandlerFailures == {"handler_exception", "handler_base"}
\* the run that began last is still in execute_shutdown_handlers
InHandlerPhase == pc[runner] \in {"exec", "in_handler"}

\* C11 as stated: a failure raised by a handler, whatever it is, does not
\* abort the handler phase: once the run is past the phase every registered
\* handler has been invoked.
C11_NoFailureAborts ==
    (runs > 0 /\ failures \cap HandlerFailures # {} /\ ~InHandlerPhase) =>
        (hret >= 0 /\ Len(invLog) = hret)

\* C11, amended: an Exception raised by a handler does not abort the handler
\* phase.  As long as no BaseException was raised in the phase, the loop
\* stands at the handler after the last finished one, and the run leaves
\* the phase only by its return, with every registered handler invoked and
\* finished, whichever of them raised.
C11_ExceptionDoesNotAbort ==
    (runs > 0 /\ failures \cap BaseFailures = {}) =>
        /\ pc[runner] = "exec" => idx[runner] = ndone + 1
        /\ ~InHandlerPhase => (hret >= 0 /\ Len(invLog) = hret /\ ndone = hret)

\* the first handler raised an Exception and the second one, registered
\* after it, has been invoked and is being awaited
C11_Witness ==
    /\ runs > 0 /\ pc[runner] = "in_handler"
    /\ failures = {"handler_exception"}
    /\ ndone = 1 /\ invLog = <<"hS", "hA">>

\* s is a prefix of t
IsPrefix(s, t) == Len(s) <= Len(t) /\ s = SubSeq(t, 1, Len(s))

\* C12: when a run of graceful_shutdown finishes, normally (with or without
\* a caught failure), the state is Idle again; a call made when no call is
\* in progress is accepted and starts the sequence from its first handler;
\* and when the handler phase of that later run returns, every registered
\* handler has been invoked in it, those invoked in the run before included.
C12_RetryRunsAgain ==
    /\ []((\A c \in Callers : ~InFlight(c)) => ~shutting_down)
    /\ [][ \A c \in Callers :
             /\ (~InFlight(c) /\ pc'[c] # pc[c] /\ \A d \in Callers : ~InFlight(d)) =>
                  /\ pc'[c] = "exec" /\ idx'[c] = 1
                  /\ runs' = runs + 1 /\ invLog' = << >> /\ hret' = -1
             /\ (runs >= 2 /\ pc[c] = "exec" /\ pc'[c] = "drain") =>
                  /\ invLog = shutdown_handlers
                  /\ IsPrefix(prevInv, invLog)
                  /\ ndone = Len(invLog) ]_vars

\* a run invoked both handlers and finished; a second call made after it was
\* accepted, and its run, in which a handler raised an Exception, has
\* invoked both handlers again and is about to leave the handler phase
C12_Witness ==
    /\ runs = 2 /\ noverlap = 0
    /\ pc[runner] = "exec" /\ idx[runner] = 3 /\ ndone = 2
    /\ prevInv = <<"hS", "hA">> /\ invLog = prevInv
    /\ "handler_exception" \in failures

\* a step in which the drain wait of c returns
DrainReturns(c) == pc[c] = "drain" /\ pc'[c] = "cancel"

\* C13 as stated, with T = DrainTimeout poll intervals: if the counter
\* reaches zero strictly before T has elapsed (between two polls, zeroSeen,
\* or at the poll that returns), wait_for_pending_operations returns true
\* before T has elapsed; if it never reaches zero, the call returns false,
\* not before T.
C13_TrueBeforeTimeout ==
    [][ \A c \in Callers : DrainReturns(c) =>
          LET reached == IF zeroSeen # -1 THEN zeroSeen
                         ELSE IF pending_operations = 0 THEN elapsed[c] ELSE -1
          IN /\ (reached # -1 /\ reached < DrainTimeout) =>
                    (drainRes' = "true" /\ elapsed[c] < DrainTimeout)
             /\ reached = -1 => (drainRes' = "timeout" /\ elapsed[c] >= DrainTimeout) ]_vars

\* C13, amended: the wait looks at the counter once per poll interval.  It
\* returns true at the first poll that finds the counter at zero, which can
\* be as late as one poll interval after T; it goes on sleeping while the
\* counter is above zero and no more than T has elapsed; it returns false
\* at the first poll later than T that finds the counter above zero, never
\* at T or before; and when the counter never reaches zero it returns false.
C13_PollDecides ==
    [][ \A c \in Callers : (pc[c] = "drain" /\ pc'[c] # "drain") =>
          /\ pending_operations = 0 =>
                (DrainReturns(c) /\ drainRes' = "true" /\ elapsed[c] <= DrainTimeout + 1)
          /\ (pending_operations > 0 /\ elapsed[c] <= DrainTimeout) =>
                (pc'[c] = "sleep" /\ drainRes' = "none")
          /\ (pending_operations > 0 /\ elapsed[c] > DrainTimeout) =>
                (DrainReturns(c) /\ drainRes' = "timeout" /\ elapsed[c] = DrainTimeout + 1)
          /\ (zeroSeen = -1 /\ pending_operations > 0) => drainRes' # "true" ]_vars

\* the counter came down to zero in the last poll interval before T and the
\* wait has returned true, at T
C13_Witness ==
    /\ runs > 0 /\ pc[runner] = "cancel"
    /\ drainRes = "true"
    /\ zeroSeen = DrainTimeout - 1 /\ elapsed[runner] = DrainTimeout

\* a step in which cancel_background_tasks, called by c, returns
CancelReturns(c) ==
    pc[c] \in {"cancel", "gather", "gather_cancelled"} /\ pc'[c] = "returned"

\* C14: when cancel_background_tasks returns, every task that was
\* registered before the call (the tasks handed to the gather, those asked
\* to cancel among them) is finished, by completion or by cancellation, and
\* get_status reports active_tasks = 0 unless a task was registered after
\* the call began; once returned, the tasks it asked to cancel stay done.
C14_TasksDoneAfterCancel ==
    /\ [][ \A c \in Callers : CancelReturns(c) =>
             /\ \A t \in gathered[c] \cup cancelReq : tstate'[t] = "done"
             /\ TaskSet(background_tasks) \subseteq gathered[c] =>
                    get_status'.active_tasks = 0 ]_vars
    /\ []((runs > 0 /\ cancelPhase /\ pc[runner] = "returned") =>
             \A t \in cancelReq : done(t))

\* two running tasks were asked to cancel, the wait timed out before they
\* ended, and the call returned with both of them done
C14_Witness ==
    /\ runs > 0 /\ pc[runner] = "returned"
    /\ cancelReq = {"t1", "t2"} /\ "cancel_timeout" \in failures
    /\ get_status.background_tasks = 2 /\ get_status.active_tasks = 0

\* ------------------------------------------- RateLimiter: more properties
\* thread t takes the lock of check_limit in this step
Enters(t) == tpc[t] = "acq" /\ tpc'[t] = "l63"

\* C15: when a check_limit call for a key reads a clock that is at least
\* window_seconds past the oldest timestamp stored for the key, the call
\* finds the count below the threshold after pruning, goes on to record the
\* request, and returns allowed=true; calls denied in between have left
\* nothing behind that could prevent it.
C15_AdmittedAfterWindow ==
    [][ \A t \in Threads :
          /\ (/\ Enters(t)
              /\ GetLog(tkey[t]) # << >>
              /\ clock >= SeqMin(GetLog(tkey[t])) + window_seconds)
                 => Len(ur'[t]) < max_requests
          /\ (tpc[t] = "l63" /\ tpc'[t] # "l63" /\ Len(ur[t]) < max_requests)
                 => tpc'[t] = "l78"
          /\ (tpc[t] = "l78" /\ tpc'[t] # "l78")
                 => (tres'.allowed /\ tres'.key = tkey[t] /\ tres'.now = tnow[t]) ]_vars

\* one key used up its quota, was denied at least twice, and was admitted
\* again once the window had passed
C15_Witness ==
    \E k \in Keys :
        /\ DOMAIN requests = {k}
        /\ stats.blocked >= 2
        /\ Len(admits[k]) = max_requests + 1
        /\ tres.allowed /\ tres.key = k
        /\ tres.now = admits[k][1] + window_seconds

\* the ceiling of n ticks in seconds, n >= 0
CeilSeconds(n) ==
    CHOOSE q \in 0..(n + 1) : q * TicksPerSec >= n /\ (q - 1) * TicksPerSec < n

\* C16: every denial reports a retry hint equal to the ceiling, in seconds,
\* of (oldest remaining timestamp + window_seconds - now); the remainder is
\* positive, and the hint lies between 1 and the ceiling of window_seconds.
\* (With max_requests = 5 and window_seconds = 1 the sixth immediate call is
\* such a denial.)
C16_RetryHintIsCeiling ==
    [][ \A t \in Threads : (tpc[t] = "l63" /\ tpc'[t] = "idle") =>
          LET retry_after == SeqMin(ur[t]) + window_seconds - tnow[t] IN
          /\ ~tres'.allowed /\ tres'.key = tkey[t]
          /\ retry_after > 0
          /\ tres'.retry = CeilSeconds(retry_after)
          /\ 1 <= tres'.retry /\ tres'.retry <= CeilSeconds(window_seconds) ]_vars

\* the default limiter admitted five calls of one key at one instant and
\* denied the sixth, made at the same instant, with a hint of one second
C16_Witness ==
    \E k \in Keys :
        /\ max_requests = DEFAULT_MAX_REQUESTS
        /\ Len(admits[k]) = DEFAULT_MAX_REQUESTS
        /\ \A i \in 1..Len(admits[k]) : admits[k][i] = tres.now
        /\ stats.total_checks = DEFAULT_MAX_REQUESTS + 1
        /\ tres.key = k /\ ~tres.allowed /\ tres.retry = 1

\* the configuration is in the range (0, 10000] x (0, 86400]
InRange ==
    /\ 0 < max_requests /\ max_requests <= MAX_REQUESTS_LIMIT
    /\ 0 < window_seconds /\ window_seconds <= MAX_WINDOW_SECONDS * TicksPerSec

\* C17 as stated: a RateLimiter whose configuration is out of range is never
\* constructed, so that no check_limit call is served by one.
C17_InvalidConfigNeverServes ==
    stats.total_checks > 0 => InRange

\* C18: the pending-operation counter is never negative; a decrement at zero
\* leaves it at zero (and is no error: the call returns), any other
\* decrement takes exactly one off, an increment adds exactly one, and
\* nothing else changes the counter.
C18_CounterNeverNegative ==
    /\ [](pending_operations >= 0)
    /\ [][ /\ decrement_pending_operations =>
                pending_operations' = IF pending_operations = 0 THEN 0
                                      ELSE pending_operations - 1
           /\ increment_pending_operations =>
                pending_operations' = pending_operations + 1
           /\ pending_operations' # pending_operations =>
                (increment_pending_operations \/ decrement_pending_operations) ]_vars

\* the counter was raised and then brought back to zero by a decrement
\* while a drain wait was asleep; a further decrement finds it at zero
C18_Witness ==
    /\ pending_operations = 0 /\ zeroSeen # -1
    /\ Live

\* len(self.requests), the 'users' value of get_stats
Users == Cardinality(DOMAIN requests)

\* C19: the distinct-keys statistic never goes down: neither
\* stats['users_tracked'], nor len(self.requests), nor the 'users' value of
\* one get_stats result compared with that of the result before it; a key
\* whose timestamps have all been pruned is still counted.
C19_UsersNeverDecrease ==
    [][ /\ stats'.users_tracked >= stats.users_tracked
        /\ Users' >= Users
        /\ (snapshot # NoSnap /\ snapshot' # snapshot) => snapshot'.users >= snapshot.users
      ]_vars

\* two keys were admitted; a later call for one of them pruned the only
\* timestamp the key had; the statistics taken afterwards count two keys
C19_Witness ==
    /\ stats.users_tracked = 2 /\ stats.total_checks = 3
    /\ snapshot # NoSnap /\ snapshot.users = 2 /\ snapshot.total_checks = 3
    /\ \E k \in Keys :
          /\ Len(admits[k]) = 2
          /\ requests[k] = <<admits[k][2]>>

\* thread t returns from check_limit in this step
Returns(t) == InCheck(t) /\ tpc'[t] = "idle"

IsSorted(s) == \A i \in 1..(Len(s) - 1) : s[i] <= s[i + 1]

\* C20: the stored log of every key holds at most max_requests timestamps
\* in non-decreasing order; when a check_limit call for a key returns, every
\* timestamp of the key's log is strictly newer than the time of that call
\* minus window_seconds; and the log of a key changes in no step other than
\* those of a call for that key, so that this stays true of the key's last
\* call until its next one.
C20_LogBounded ==
    /\ [](\A k \in DOMAIN requests :
             Len(requests[k]) <= max_requests /\ IsSorted(requests[k]))
    /\ [][ /\ \A t \in Threads : Returns(t) =>
                \A i \in 1..Len(requests'[tkey[t]]) :
                    requests'[tkey[t]][i] > tnow[t] - window_seconds
           /\ \A k \in DOMAIN requests : requests'[k] # requests[k] =>
                \E t \in Threads : tkey[t] = k /\ (Enters(t) \/ tpc[t] = "l78") ]_vars

\* a key with max_requests = 2 was admitted three times; its log is full
\* and holds the last two timestamps, the first one having been pruned
C20_Witness ==
    /\ max_requests = 2 /\ tres.allowed
    /\ Len(admits[tres.key]) = 3
    /\ requests[tres.key] = <<admits[tres.key][2], tres.now>>
    /\ admits[tres.key][2] < tres.now
    /\ \A t \in Threads : tpc[t] = "idle"

Last(s) == s[Len(s)]

\* C21: the prune keeps exactly the timestamps strictly greater than
\* now - window_seconds, so that one equal to now - window_seconds is
\* dropped; and with max_requests = 1 a call that follows an admission at
\* time a is admitted when it is made at a + window_seconds (or later) and
\* denied when it is made before a + window_seconds.
C21_BoundaryIsPruned ==
    [][ \A t \in Threads :
          /\ Enters(t) =>
               LET log == GetLog(tkey[t]) IN
               /\ \A i \in 1..Len(ur'[t]) : ur'[t][i] > clock - window_seconds
               /\ Len(ur'[t]) =
                    Cardinality({i \in 1..Len(log) : log[i] > clock - window_seconds})
          /\ (Returns(t) /\ max_requests = 1 /\ admits[tkey[t]] # << >>) =>
               LET a == Last(admits[tkey[t]]) IN
               /\ tnow[t] >= a + window_seconds => tres'.allowed
               /\ tnow[t] < a + window_seconds => ~tres'.allowed ]_vars

\* with max_requests = 1 and a window of two ticks a key was admitted at a,
\* denied one tick later, and admitted again at exactly a + window_seconds
C21_Witness ==
    \E k \in Keys :
        /\ max_requests = 1 /\ window_seconds = 2
        /\ DOMAIN requests = {k} /\ stats.blocked = 1
        /\ Len(admits[k]) = 2
        /\ admits[k][2] = admits[k][1] + window_seconds
        /\ tres.key = k /\ tres.allowed /\ tres.now = admits[k][2]

\* thread t returns from check_limit with a denial in this step
Denies(t) == tpc[t] = "l63" /\ tpc'[t] = "idle" /\ tres'.error = "none"

\* the times of the calls for k that returned True
AdmitTimes(k) == {admits[k][i] : i \in 1..Len(admits[k])}

\* C22: a denied call records nothing.  On entry it counts the check and
\* stores the pruned log; on the denial the log stays as pruned, blocked
\* grows by one, and allowed, users_tracked and total_checks stay; so every
\* timestamp ever stored for a key is the time of an admitted call, and the
\* oldest one, which decides when the key is admitted again, is not moved
\* by a denial.
C22_DenialRecordsNothing ==
    /\ [](\A k \in DOMAIN requests :
             \A i \in 1..Len(requests[k]) : requests[k][i] \in AdmitTimes(k))
    /\ [][ \A t \in Threads :
             /\ Enters(t) =>
                  /\ requests'[tkey[t]] = Prune(GetLog(tkey[t]), clock - window_seconds)
                  /\ stats' = [stats EXCEPT !.total_checks = @ + 1]
             /\ Denies(t) =>
                  /\ requests' = requests
                  /\ requests[tkey[t]] = ur[t]
                  /\ SeqMin(requests'[tkey[t]]) = SeqMin(ur[t])
                  /\ stats' = [stats EXCEPT !.blocked = @ + 1]
                  /\ admits' = admits ]_vars

\* a key was admitted once and then denied twice, the last time later than
\* the admission; its log still holds the time of the admission only
C22_Witness ==
    \E k \in Keys :
        /\ DOMAIN requests = {k}
        /\ stats.allowed = 1 /\ stats.blocked = 2 /\ stats.total_checks = 3
        /\ tres.key = k /\ ~tres.allowed /\ tres.now > admits[k][1]
        /\ requests[k] = <<admits[k][1]>>
        /\ \A t \in Threads : tpc[t] = "idle"

\* the calls for k that returned True later than s
AdmitsAfter(k, s) == {i \in 1..Len(admits[k]) : admits[k][i] > s}

\* C23: keys are independent.  The log of a key changes only in the steps
\* of a call for that key, and the result of a call for a key is a function
\* of the key's own history: the call is admitted exactly when fewer than
\* max_requests of the earlier admitted calls for the same key lie within
\* window_seconds before it, whatever calls were made for other keys.
C23_KeysIndependent ==
    [][ /\ \A k \in DOMAIN requests : requests'[k] # requests[k] =>
             \E t \in Threads : tkey[t] = k /\ (Enters(t) \/ InCheck(t))
        /\ \A t \in Threads : (Returns(t) /\ tres'.error = "none") =>
             (tres'.allowed <=>
                Cardinality(AdmitsAfter(tkey[t], tnow[t] - window_seconds)) < max_requests)
      ]_vars

\* one key has used up its quota and has been denied; at the same instant
\* the other key is admitted
C23_Witness ==
    \E k1, k2 \in Keys :
        /\ k1 # k2
        /\ Len(admits[k1]) = max_requests /\ stats.blocked >= 1
        /\ \A i \in 1..Len(admits[k1]) : admits[k1][i] = tres.now
        /\ tres.key = k2 /\ tres.allowed
        /\ admits[k2] = <<tres.now>>

\* a call of graceful_shutdown is turned away by the guard in this step
Rejected == ncalls' = ncalls + 1 /\ runs' = runs

Registered == {background_tasks[i] : i \in 1..Len(background_tasks)}

\* C25: when the cancellation phase of a run starts, every task registered
\* by then (one registered while the same run was in its handler or drain
\* phase included) that is not finished gets a cancellation request in
\* that run, and a task that is finished, or not registered, gets none.
C25_UnfinishedTasksCancelled ==
    /\ [](lateTasks \subseteq Registered)
    /\ [][ \A c \in Callers : (pc[c] = "cancel" /\ pc'[c] # "cancel") =>
             \A t \in TaskIds :
                 /\ (t \in Registered /\ tstate[t] \in {"running", "cancelling"}) =>
                        (tstate'[t] = "cancelling" /\ t \in cancelReq')
                 /\ (t \in Registered /\ done(t)) =>
                        (tstate'[t] = "done" /\ t \notin cancelReq')
                 /\ t \notin Registered =>
                        (tstate'[t] = tstate[t] /\ t \notin cancelReq') ]_vars

\* one task was registered before the run and finished before its
\* cancellation phase, another was registered during the run and was still
\* running: only the second one has been asked to cancel
C25_Witness ==
    /\ runs > 0 /\ pc[runner] = "gather"
    /\ background_tasks = <<"t1", "t2">>
    /\ lateTasks = {"t2"} /\ cancelReq = {"t2"}
    /\ tstate = [t \in TaskIds |-> IF t = "t1" THEN "done" ELSE "cancelling"]

====
